---------------------------- MODULE Spec2Model ----------------------------
(***************************************************************************)
(* Model of boletin_analisis_completo.py: the daily pipeline main() that   *)
(* downloads the bulletin index, classifies every norm by the amounts in   *)
(* its document, scrapes the tenders, asks for summaries and persists one  *)
(* dataset file and one optional pending sidecar per date.                 *)
(*                                                                         *)
(* Strings whose characters matter (organisation names, document texts)    *)
(* are sequences of one-character strings.  Amounts are integers in cents. *)
(* A Python dict is a record; an absent key is an absent field.            *)
(***************************************************************************)
EXTENDS Integers, Sequences, FiniteSets, TLC

\* ------------------------------------------------------------------ bounds
\* Largest number of norms in the bulletin index of a date.
MaxNorms == 2
\* Largest number of summarisation/attachment calls that fail in one run.
MaxAIFail == 1
\* Largest number of interrupted runs in a behaviour.
MaxCrashes == 1
\* Largest number of groups of three digits after the first group of an amount.
MaxGroups == 1

\* ------------------------------------------------------- program constants
SnippetLen == 800
GastosSummaryCap == 50
SinGastosSummaryCap == 30
LicSummaryCap == 20
SinGastosCap == 50

\* --------------------------------------------------------------- utilities
Min(a, b) == IF a < b THEN a ELSE b

\* s[:n] of Python
Take(s, n) == SubSeq(s, 1, Min(Len(s), n))

Range(s) == {s[i] : i \in 1..Len(s)}

\* d.get(k, default) for the keys the program reads with a default
Get(d, k, default) == IF k \in DOMAIN d THEN d[k] ELSE default

\* the record d with d[k] = v, the key added when it is missing
Put(d, k, v) == [x \in (DOMAIN d) \cup {k} |-> IF x = k THEN v ELSE d[x]]

None == "None"

Space == {" ", "\t", "\n"}
Digit == {"0", "1", "2", "3", "4", "5", "6", "7", "8", "9"}

DigitVal(c) ==
  CASE c = "0" -> 0 [] c = "1" -> 1 [] c = "2" -> 2 [] c = "3" -> 3
    [] c = "4" -> 4 [] c = "5" -> 5 [] c = "6" -> 6 [] c = "7" -> 7
    [] c = "8" -> 8 [] c = "9" -> 9

\* ------------------------------------------------------------ clean_organismo
RECURSIVE lstrip(_, _)
lstrip(s, chars) ==
  IF s # <<>> /\ Head(s) \in chars THEN lstrip(Tail(s), chars) ELSE s

RECURSIVE rstrip(_, _)
rstrip(s, chars) ==
  IF s # <<>> /\ s[Len(s)] \in chars
  THEN rstrip(SubSeq(s, 1, Len(s) - 1), chars)
  ELSE s

strip(s) == rstrip(lstrip(s, Space), Space)

Otros == <<"O", "t", "r", "o", "s">>

\* org.strip().rstrip('-').rstrip().strip(), "Otros" for an empty name
clean_organismo(org) ==
  IF org = <<>> THEN Otros
  ELSE strip(rstrip(rstrip(strip(org), {"-"}), Space))

\* ------------------------------------------------------------ extract_amounts
IsDigit(text, p) == p >= 1 /\ p <= Len(text) /\ text[p] \in Digit

\* how many of the characters at p, p+1, p+2 the pattern \d{1,3} takes
DigitsRun(text, p) ==
  IF ~IsDigit(text, p) THEN 0
  ELSE IF ~IsDigit(text, p + 1) THEN 1
  ELSE IF ~IsDigit(text, p + 2) THEN 2
  ELSE 3

RECURSIVE NumVal(_, _, _)
NumVal(text, p, n) ==
  IF n = 0 THEN 0
  ELSE NumVal(text, p, n - 1) * 10 + DigitVal(text[p + n - 1])

\* amounts[0] instead of max(amounts)
FirstOf(s) == s[1]

\* (?:\.\d{3})* matching nothing
GroupsNone(text, p, acc) == [end |-> p, val |-> acc]

\* (?:\.\d{3})* from position p with the integer part read so far
RECURSIVE Groups(_, _, _)
Groups(text, p, acc) ==
  IF /\ p <= Len(text)
     /\ text[p] = "."
     /\ IsDigit(text, p + 1) /\ IsDigit(text, p + 2) /\ IsDigit(text, p + 3)
  THEN Groups(text, p + 4, acc * 1000 + NumVal(text, p + 1, 3))
  ELSE [end |-> p, val |-> acc]

\* (?:,\d{1,2})? after the integer part; the value in cents
Fraction(text, g) ==
  IF g.end <= Len(text) /\ text[g.end] = "," /\ IsDigit(text, g.end + 1)
  THEN IF IsDigit(text, g.end + 2)
       THEN [end |-> g.end + 3, val |-> g.val * 100 + NumVal(text, g.end + 1, 2)]
       ELSE [end |-> g.end + 2, val |-> g.val * 100 + NumVal(text, g.end + 1, 1) * 10]
  ELSE [end |-> g.end, val |-> g.val * 100]

\* one match of AMOUNT_REGEX starting at position i
MatchAt(text, i) ==
  IF text[i] # "$" THEN [ok |-> FALSE, end |-> i, val |-> 0]
  ELSE LET j == IF i + 1 <= Len(text) /\ text[i + 1] \in Space THEN i + 2 ELSE i + 1
           n == DigitsRun(text, j)
       IN  IF n = 0 THEN [ok |-> FALSE, end |-> i, val |-> 0]
           ELSE LET f == Fraction(text, Groups(text, j + n, NumVal(text, j, n)))
                IN  [ok |-> TRUE, end |-> f.end, val |-> f.val]

\* re.finditer: leftmost matches, each search resuming where the last ended
RECURSIVE ScanFrom(_, _)

\* the first position from i on where the pattern matches, 0 if there is none
NextMatch(text, i) ==
  LET starts == {k \in i..Len(text) : MatchAt(text, k).ok}
  IN  IF starts = {} THEN 0 ELSE CHOOSE k \in starts : \A j \in starts : k <= j

\* float(val_str), kept if val > 0; the search goes on after the match
Emit(text, m) == (IF m.val > 0 THEN <<m.val>> ELSE <<>>) \o ScanFrom(text, m.end)

ScanAt(text, k) == IF k = 0 THEN <<>> ELSE Emit(text, MatchAt(text, k))

ScanFrom(text, i) == ScanAt(text, NextMatch(text, i))

extract_amounts(text) == IF text = <<>> THEN <<>> ELSE ScanFrom(text, 1)

RECURSIVE MaxOf(_)
MaxOf(s) ==
  IF Len(s) = 1 THEN s[1]
  ELSE LET m == MaxOf(Tail(s)) IN IF s[1] >= m THEN s[1] ELSE m

\* ------------------------------------------------- the world the program sees
Dates == {1, 2}

TextNone == <<"x">>
TextSmall == <<"$", "5">>
TextBig == <<"$", "1", ".", "0", "0", "0", " ", "$", "5">>

\* what the index and the document server hold for one norm
NormPool ==
  { [org |-> <<"a">>, text |-> TextBig, nombre |-> "n", nanexos |-> 0],
    [org |-> <<"a", "-", " ", "-">>, text |-> TextSmall, nombre |-> "n", nanexos |-> 0],
    [org |-> <<" ", "-">>, text |-> TextSmall, nombre |-> "n", nanexos |-> 0],
    [org |-> <<"a">>, text |-> TextNone, nombre |-> "n", nanexos |-> 1],
    [org |-> <<"a">>, text |-> TextNone, nombre |-> None, nanexos |-> 0] }

Worlds == UNION {[1..n -> NormPool] : n \in 0..MaxNorms}

UrlOf(d, i) == <<d, i>>

\* one entry of the index list of an organisation, with the organisation key
IndexEntry(d, i, p) ==
  [nombre |-> p.nombre, sumario |-> "s", url_norma |-> UrlOf(d, i),
   organismo |-> p.org,
   anexos |-> [j \in 1..p.nanexos |->
                 [nombre_anexo |-> "x", filenet_firmado |-> <<d, i, j>>]]]

Tender == [numero |-> "1", nombre |-> "lic", unidad |-> "u"]
ScrapeResults == {<<>>, <<Tender>>}

\* how the browser session ends: rows read, or an exception before any row
ScrapeOutcomes ==
  {[kind |-> "ok", rows |-> l] : l \in ScrapeResults}
    \cup {[kind |-> "error", rows |-> <<>>]}

FailKinds == {"http", "timeout", "error"}
AIText == "ai"

NoFile == [exists |-> FALSE]
NoMem == [fecha |-> 0, data |-> NoFile, pend |-> <<>>, pending_data |-> NoFile]
NoLog ==
  [mode |-> "none", fetched |-> <<>>, ok |-> {}, scraped |-> 0, scrape |-> "none",
   lics |-> 0, client_ok |-> FALSE, ai |-> {}, aifail |-> {}]

VARIABLES
  boletin,      \* date -> the index the API returns for it (flattened order)
  pdf,          \* norm URL -> text of its document
  fecha,        \* the date the API publishes now
  flaky,        \* the norm URLs whose fetch can fail
  dataFile,     \* date -> datos/<date>.json
  pendingFile,  \* date -> datos/<date>_pendientes.json
  html,         \* what regenerate_html last wrote
  pc,           \* where the running main() is
  mem,          \* the running main()'s day_data/existing_data and pending list
  log,          \* the collaborator calls of the current or last invocation
  before,       \* the two files of the date as the invocation found them
  prev,         \* the fetch outcomes of the completed invocation before
  crashes       \* interrupted runs so far

vars == <<boletin, pdf, fecha, flaky, dataFile, pendingFile, html, pc, mem, log,
          before, prev, crashes>>

world == <<boletin, pdf, fecha, flaky>>

\* no file written, no run started
InitStore ==
  /\ fecha = 1
  /\ dataFile = [d \in Dates |-> NoFile]
  /\ pendingFile = [d \in Dates |-> NoFile]
  /\ html = [dates |-> {}, organismos |-> {}]
  /\ pc = "idle"
  /\ mem = NoMem
  /\ log = NoLog
  /\ before = [data |-> NoFile, pending |-> NoFile]
  /\ prev = [ran |-> FALSE, ok |-> {}, failed |-> {}]
  /\ crashes = 0

\* the state before the first main(), the index and the documents of date 1
\* being one of the worlds of W; the first MaxNorms documents can fail
InitFrom(W) ==
  /\ \E w \in W :
       /\ boletin = [d \in Dates |->
                       IF d = 1 THEN [i \in 1..Len(w) |-> IndexEntry(d, i, w[i])]
                       ELSE <<>>]
       /\ pdf = [u \in {UrlOf(1, i) : i \in 1..Len(w)} |-> w[u[2]].text]
       /\ flaky = {UrlOf(1, i) : i \in 1..Min(Len(w), MaxNorms)}
  /\ InitStore

Init == InitFrom(Worlds)

\* ------------------------------------------------------------- process_norm
\* the sets of URLs of a batch whose fetch can succeed in one run
FetchOutcomes(urls) == {urls \ f : f \in SUBSET (urls \cap flaky)}

Response(url, ok, kind) ==
  IF url \in ok THEN [kind |-> "ok", text |-> pdf[url]] ELSE [kind |-> kind]

\* lines 72-78: the fields set from the amounts of the text
Marked(it, amounts) ==
  IF amounts # <<>>
  THEN Put(Put(Put(it, "monto", MaxOf(amounts)), "todos_montos", Len(amounts)),
           "tiene_gasto", TRUE)
  ELSE Put(it, "tiene_gasto", FALSE)

\* the try body of process_norm; raised = an exception left the body
TryProcessNorm(item, r) ==
  IF r.kind \in {"timeout", "error"}
  THEN [raised |-> TRUE, success |-> FALSE, item |-> item]
  ELSE IF r.kind # "ok" THEN [raised |-> FALSE, success |-> FALSE, item |-> item]
  ELSE [raised |-> FALSE,
        success |-> TRUE,
        item |-> Marked(Put(item, "text_snippet", Take(r.text, SnippetLen)),
                        extract_amounts(r.text))]

\* an except clause: the exception becomes (False, item, message)
Caught(t) == IF t.raised THEN [t EXCEPT !.raised = FALSE] ELSE t

\* process_norm with the Timeout clause only
process_norm_timeout_only(item, r) ==
  IF r.kind = "timeout" THEN Caught(TryProcessNorm(item, r))
  ELSE TryProcessNorm(item, r)

\* the two except clauses catch every exception of the try body
process_norm(item, r) == Caught(TryProcessNorm(item, r))

\* scrape_licitaciones: the list built so far, whatever happened in the try
scrape_licitaciones(o) == [raised |-> FALSE, licitaciones |-> o.rows]

\* list.sort(key=lambda x: x.get('monto', 0), reverse=True): stable
Monto(x) == Get(x, "monto", 0)

InsertDesc(acc, x) ==
  LET lower == {i \in 1..Len(acc) : Monto(acc[i]) < Monto(x)}
      at == IF lower = {} THEN Len(acc) + 1
            ELSE CHOOSE i \in lower : \A k \in lower : i <= k
  IN  SubSeq(acc, 1, at - 1) \o <<x>> \o SubSeq(acc, at, Len(acc))

RECURSIVE SortFrom(_, _)
SortFrom(acc, s) ==
  IF s = <<>> THEN acc ELSE SortFrom(InsertDesc(acc, Head(s)), Tail(s))

\* the sort without reverse=True
SortByMontoAsc(s) ==
  LET d == SortFrom(<<>>, s) IN [i \in 1..Len(d) |-> d[Len(d) + 1 - i]]

SortByMontoDesc(s) == SortFrom(<<>>, s)

Items(rs) == [i \in 1..Len(rs) |-> rs[i].item]

\* ------------------------------------------------------ main: first run parts
\* the flattening of the nested index into all_norms
Flatten(index) ==
  [i \in 1..Len(index) |->
     [nombre |-> index[i].nombre,
      sumario |-> index[i].sumario,
      url |-> index[i].url_norma,
      tipo |-> "t",
      organismo |-> clean_organismo(index[i].organismo),
      anexos |-> [j \in 1..Len(index[i].anexos) |->
                    [nombre |-> index[i].anexos[j].nombre_anexo,
                     url |-> index[i].anexos[j].filenet_firmado]]]]

RECURSIVE SumLen(_)
SumLen(ss) == IF ss = <<>> THEN 0 ELSE Len(Head(ss)) + SumLen(Tail(ss))

TotalAnexos(norms) == SumLen([i \in 1..Len(norms) |-> Get(norms[i], "anexos", <<>>)])

\* the classification loop over a batch: process_norm on every item
Classify(norms, ok, kind) ==
  [i \in 1..Len(norms) |-> process_norm(norms[i], Response(norms[i].url, ok, kind))]

IsGasto(r) == r.success /\ Get(r.item, "tiene_gasto", FALSE)
IsSinGasto(r) == r.success /\ ~Get(r.item, "tiene_gasto", FALSE)
IsFailed(r) == ~r.success

\* a summarisation or attachment call, named by what it is about
NormKey(kind, n) == [k |-> kind, u |-> n.url, j |-> 0]
LicKey(i) == [k |-> "lic", u |-> <<0, i>>, j |-> 0]
AnexoKey(kind, a) == [k |-> kind, u |-> <<a.url[1], a.url[2]>>, j |-> a.url[3]]

\* get_ai_summary: the stripped response, "" when the call fails
get_ai_summary(key, fail) == IF key \in fail THEN "" ELSE AIText

\* process_anexo: the first characters of the attachment, "" when it fails
process_anexo(anexo, fail) ==
  IF AnexoKey("anexo_fetch", anexo) \in fail THEN "" ELSE "texto"

\* a or b without its second operand
OrFirst(a, b) == a

\* Python's a or b on strings
Or(a, b) == IF a = "" THEN b ELSE a

SummariseGasto(g, fail) ==
  Put(Put(g, "resumen_corto",
          Or(get_ai_summary(NormKey("corto", g), fail), Get(g, "sumario", ""))),
      "resumen_largo",
      Or(get_ai_summary(NormKey("largo", g), fail), Get(g, "sumario", "")))

SummariseSinGasto(n, fail) ==
  Put(n, "resumen_corto",
      Or(get_ai_summary(NormKey("corto", n), fail), Get(n, "sumario", "")))

SummariseLic(lic, i, fail) ==
  Put(lic, "resumen_ia", Or(get_ai_summary(LicKey(i), fail), lic.nombre))

SummariseAnexo(a, fail) ==
  Put(a, "resumen",
      IF process_anexo(a, fail) # ""
      THEN get_ai_summary(AnexoKey("anexo", a), fail)
      ELSE "")

WithAnexos(n, fail) ==
  IF "anexos" \in DOMAIN n
  THEN [n EXCEPT !.anexos = [j \in 1..Len(n.anexos) |-> SummariseAnexo(n.anexos[j], fail)]]
  ELSE n

AnexosOf(norms) ==
  UNION {Range(Get(norms[i], "anexos", <<>>)) : i \in 1..Len(norms)}

\* every call the summaries block can make on these lists
AIKeys(gastos, sin_gastos, licitaciones) ==
  {NormKey("corto", n) : n \in Range(Take(gastos, GastosSummaryCap))}
    \cup {NormKey("largo", n) : n \in Range(Take(gastos, GastosSummaryCap))}
    \cup {NormKey("corto", n) : n \in Range(Take(sin_gastos, SinGastosSummaryCap))}
    \cup {LicKey(i) : i \in 1..Min(Len(licitaciones), LicSummaryCap)}
    \cup {AnexoKey("anexo_fetch", a) : a \in AnexosOf(gastos \o sin_gastos)}
    \cup {AnexoKey("anexo", a) : a \in AnexosOf(gastos \o sin_gastos)}

\* the calls actually made: no summary is asked for an attachment without text
AICalled(keys, fail) ==
  {key \in keys :
     key.k = "anexo" => [key EXCEPT !.k = "anexo_fetch"] \notin fail}

\* the summaries block, lines 332-370; client_ok = Client(...) did not raise
AIBlock(gastos, sin_gastos, licitaciones, client_ok, fail) ==
  IF ~client_ok
  THEN [gastos |-> gastos, sin_gastos |-> sin_gastos, licitaciones |-> licitaciones]
  ELSE [gastos |->
          [i \in 1..Len(gastos) |->
             WithAnexos(IF i <= GastosSummaryCap
                        THEN SummariseGasto(gastos[i], fail) ELSE gastos[i], fail)],
        sin_gastos |->
          [i \in 1..Len(sin_gastos) |->
             WithAnexos(IF i <= SinGastosSummaryCap
                        THEN SummariseSinGasto(sin_gastos[i], fail)
                        ELSE sin_gastos[i], fail)],
        licitaciones |->
          [i \in 1..Len(licitaciones) |->
             IF i <= LicSummaryCap
             THEN SummariseLic(licitaciones[i], i, fail) ELSE licitaciones[i]]]

\* sorted(set(g.get('organismo', '') for g in gastos if g.get('organismo')))
OrganismosUnicos(gastos) ==
  {Get(gastos[i], "organismo", <<>>) : i \in 1..Len(gastos)} \ {<<>>}

DayData(d, all_norms, s, pendientes) ==
  [exists |-> TRUE,
   fecha |-> d,
   total_normas |-> Len(all_norms),
   total_anexos |-> TotalAnexos(all_norms),
   organismos |-> OrganismosUnicos(s.gastos),
   gastos |-> s.gastos,
   sin_gastos |-> Take(s.sin_gastos, SinGastosCap),
   licitaciones |-> s.licitaciones,
   errores |-> Len(pendientes)]

\* the subsets of S with at most k elements
RECURSIVE SetsUpTo(_, _)
SetsUpTo(S, k) ==
  IF k = 0 THEN {{}}
  ELSE LET P == SetsUpTo(S, k - 1) IN P \cup {q \cup {x} : q \in P, x \in S}

FailSets(keys) == SetsUpTo(keys, MaxAIFail)

Urls(norms) == {norms[i].url : i \in 1..Len(norms)}
UrlSeq(norms) == [i \in 1..Len(norms) |-> norms[i].url]

Snapshot == [data |-> dataFile[fecha], pending |-> pendingFile[fecha]]

\* ------------------------------------------------------------ main: actions
CompletedModes == {"first", "retry", "done"}

\* the last invocation ran to its end
Completed == pc = "idle" /\ log.mode \in CompletedModes

\* which fetches succeeded and failed in the last completed invocation
LastOutcome ==
  IF log.mode \in CompletedModes
  THEN [ran |-> TRUE, ok |-> log.ok, failed |-> Range(log.fetched) \ log.ok]
  ELSE prev

PendingList(f) == IF f.exists THEN Get(f, "pendientes", <<>>) ELSE <<>>

\* the three branches of main(), lines 235, 281 and 397
RetryModeGuard == pendingFile[fecha].exists

\* the elif without its test of the dataset file
NormalModeGuardNoDataTest == ~RetryModeGuard

NormalModeGuard == ~RetryModeGuard /\ ~dataFile[fecha].exists

AlreadyDoneGuard == ~RetryModeGuard /\ ~NormalModeGuard

\* the index downloaded after the pending file of the date has been removed
MainIndexFailsFilesLost ==
  /\ pc = "idle"
  /\ log' = [NoLog EXCEPT !.mode = "abort"]
  /\ before' = Snapshot
  /\ prev' = LastOutcome
  /\ pendingFile' = [pendingFile EXCEPT ![fecha] = NoFile]
  /\ UNCHANGED <<world, dataFile, html, pc, mem, crashes>>

\* requests.get(API_URL) or response.json() raises: main() ends there
MainIndexFails ==
  /\ pc = "idle"
  /\ log' = [NoLog EXCEPT !.mode = "abort"]
  /\ before' = Snapshot
  /\ prev' = LastOutcome
  /\ UNCHANGED <<world, dataFile, pendingFile, html, pc, mem, crashes>>

\* the first item of the classification loop at which main() raises (line 311
\* on a norm without nombre, line 312 if process_norm raised), 0 if none
FirstRaise(all_norms, rs) ==
  LET bad == {i \in 1..Len(all_norms) : all_norms[i].nombre = None \/ rs[i].raised}
  IN  IF bad = {} THEN 0 ELSE CHOOSE i \in bad : \A k \in bad : i <= k

\* NORMAL MODE up to the first file write: flatten, classify, sort, scrape,
\* summarise, build day_data
NormalModeResult(rs, lics) ==
  [gastos |-> SortByMontoDesc(Items(SelectSeq(rs, IsGasto))),
   sin_gastos |-> Items(SelectSeq(rs, IsSinGasto)),
   licitaciones |-> lics,
   pendientes |-> Items(SelectSeq(rs, IsFailed))]

AIKeysOf(c) == AIKeys(c.gastos, c.sin_gastos, c.licitaciones)

\* lines 332-385: the summaries block and day_data, from the lists c
NormalModeStore(all_norms, ok, o, client_ok, c) ==
  \E fail \in FailSets(AIKeysOf(c)) :
    /\ mem' = [fecha |-> fecha,
               data |-> DayData(fecha, all_norms,
                                AIBlock(c.gastos, c.sin_gastos,
                                        c.licitaciones, client_ok, fail),
                                c.pendientes),
               pend |-> c.pendientes,
               pending_data |-> NoFile]
    /\ log' = [mode |-> "first", fetched |-> UrlSeq(all_norms),
               ok |-> ok, scraped |-> 1, scrape |-> o.kind,
               lics |-> Len(c.licitaciones),
               client_ok |-> client_ok,
               ai |-> IF client_ok THEN AICalled(AIKeysOf(c), fail) ELSE {},
               aifail |-> IF client_ok
                          THEN fail \cap AICalled(AIKeysOf(c), fail) ELSE {}]

\* lines 310-328: the run goes on when neither the loop nor the scrape raised
NormalModeRun(all_norms, ok, o, client_ok, rs, sc) ==
  /\ FirstRaise(all_norms, rs) = 0
  /\ ~sc.raised
  /\ NormalModeStore(all_norms, ok, o, client_ok,
                     NormalModeResult(rs, sc.licitaciones))

NormalModeFrom(all_norms) ==
  \E ok \in FetchOutcomes(Urls(all_norms)), kind \in FailKinds,
     o \in ScrapeOutcomes, client_ok \in BOOLEAN :
    NormalModeRun(all_norms, ok, o, client_ok,
                  Classify(all_norms, ok, kind), scrape_licitaciones(o))

MainNormalMode ==
  /\ pc = "idle"
  /\ NormalModeGuard
  /\ NormalModeFrom(Flatten(boletin[fecha]))
  /\ pc' = "first_write_data"
  /\ before' = Snapshot
  /\ prev' = LastOutcome
  /\ UNCHANGED <<world, dataFile, pendingFile, html, crashes>>

\* item['nombre'][:45] on a norm without nombre raises TypeError out of main();
\* so would an exception leaving process_norm or scrape_licitaciones
RaisedLog(all_norms, ok, first) ==
  LET n == IF first = 0 THEN Len(all_norms)
           ELSE IF all_norms[first].nombre = None THEN first - 1
           ELSE first
      done == SubSeq(all_norms, 1, n)
  IN  [NoLog EXCEPT !.mode = "raised",
                    !.fetched = UrlSeq(done),
                    !.ok = ok \cap Urls(done),
                    !.scraped = IF first = 0 THEN 1 ELSE 0]

NormalModeRaises(all_norms, ok, first, sc) ==
  /\ first # 0 \/ sc.raised
  /\ log' = RaisedLog(all_norms, ok, first)

NormalModeRaisesFrom(all_norms) ==
  \E ok \in FetchOutcomes(Urls(all_norms)), kind \in FailKinds, o \in ScrapeOutcomes :
    NormalModeRaises(all_norms, ok,
                     FirstRaise(all_norms, Classify(all_norms, ok, kind)),
                     scrape_licitaciones(o))

MainNormalModeRaises ==
  /\ pc = "idle"
  /\ NormalModeGuard
  /\ NormalModeRaisesFrom(Flatten(boletin[fecha]))
  /\ before' = Snapshot
  /\ prev' = LastOutcome
  /\ UNCHANGED <<world, dataFile, pendingFile, html, pc, mem, crashes>>

\* the first run that writes the pending file before the dataset file
FirstWriteDataAfterPending ==
  \/ /\ pc = "first_write_data" /\ mem.pend # <<>>
     /\ pendingFile' = [pendingFile EXCEPT ![mem.fecha] =
                          [exists |-> TRUE, fecha |-> mem.fecha, pendientes |-> mem.pend]]
     /\ pc' = "first_write_data_last"
     /\ UNCHANGED <<world, dataFile, html, mem, log, before, prev, crashes>>
  \/ /\ pc = "first_write_data_last" \/ (pc = "first_write_data" /\ mem.pend = <<>>)
     /\ dataFile' = [dataFile EXCEPT ![mem.fecha] = mem.data]
     /\ pc' = "regen"
     /\ UNCHANGED <<world, pendingFile, html, mem, log, before, prev, crashes>>

\* the first run that writes its dataset under the file name of date 1
FirstWriteDataFixedName ==
  /\ pc = "first_write_data"
  /\ dataFile' = [dataFile EXCEPT ![1] = mem.data]
  /\ pc' = IF mem.pend # <<>> THEN "first_write_pending" ELSE "regen"
  /\ UNCHANGED <<world, pendingFile, html, mem, log, before, prev, crashes>>

\* json.dump(day_data) to data_file, line 387
FirstWriteData ==
  /\ pc = "first_write_data"
  /\ dataFile' = [dataFile EXCEPT ![mem.fecha] = mem.data]
  /\ pc' = IF mem.pend # <<>> THEN "first_write_pending" ELSE "regen"
  /\ UNCHANGED <<world, pendingFile, html, mem, log, before, prev, crashes>>

\* json.dump({'fecha', 'pendientes'}) to pending_file, line 391
FirstWritePending ==
  /\ pc = "first_write_pending"
  /\ pendingFile' = [pendingFile EXCEPT ![mem.fecha] =
                       [exists |-> TRUE, fecha |-> mem.fecha, pendientes |-> mem.pend]]
  /\ pc' = "regen"
  /\ UNCHANGED <<world, dataFile, html, mem, log, before, prev, crashes>>

\* the retry loop: process_norm, then the organismo of the item cleaned again
Recleaned(r) ==
  [r EXCEPT !.item = Put(r.item, "organismo",
                         clean_organismo(Get(r.item, "organismo", <<>>)))]

RetryClassify(pendientes, ok, kind) ==
  [i \in 1..Len(pendientes) |->
     Recleaned(process_norm(pendientes[i], Response(pendientes[i].url, ok, kind)))]

\* the cleaning of the stored gastos that also blanks their short summary
CleanGastosBlankSummary(gastos) ==
  [i \in 1..Len(gastos) |->
     Put(Put(gastos[i], "organismo", clean_organismo(Get(gastos[i], "organismo", <<>>))),
         "resumen_corto", "")]

CleanGastos(gastos) ==
  [i \in 1..Len(gastos) |->
     Put(gastos[i], "organismo", clean_organismo(Get(gastos[i], "organismo", <<>>)))]

\* the merge without line 264
RetryMergeGastosOnly(existing_data, rs) ==
  [existing_data EXCEPT
     !.gastos = CleanGastos(SortByMontoDesc(
                  existing_data.gastos \o Items(SelectSeq(rs, IsGasto))))]

\* the merge with the new norms first and the cap of line 382 applied again
RetryMergeNewFirstCapped(existing_data, rs) ==
  [existing_data EXCEPT
     !.gastos = CleanGastos(SortByMontoDesc(
                  existing_data.gastos \o Items(SelectSeq(rs, IsGasto)))),
     !.sin_gastos = Take(Items(SelectSeq(rs, IsSinGasto)) \o existing_data.sin_gastos,
                         SinGastosCap)]

\* lines 263-268: extend both lists, sort gastos, clean the organismos
RetryMerge(existing_data, rs) ==
  [existing_data EXCEPT
     !.gastos = CleanGastos(SortByMontoDesc(
                  existing_data.gastos \o Items(SelectSeq(rs, IsGasto)))),
     !.sin_gastos = existing_data.sin_gastos \o Items(SelectSeq(rs, IsSinGasto))]

\* the failed items put at the front of the list instead of appended
AunPendientesReversed(rs) ==
  LET f == Items(SelectSeq(rs, IsFailed)) IN [i \in 1..Len(f) |-> f[Len(f) + 1 - i]]

\* the items whose fetch failed again forgotten
AunPendientesNone(rs) == <<>>

\* aun_pendientes: the items whose fetch failed again, in order
AunPendientes(rs) == Items(SelectSeq(rs, IsFailed))

\* lines 263-279 prepared: the merged dataset and the items still pending
RetryModeRun(pending_data, pendientes, ok, rs) ==
  /\ \A i \in 1..Len(rs) : ~rs[i].raised
  /\ mem' = [fecha |-> fecha,
             data |-> RetryMerge(dataFile[fecha], rs),
             pend |-> AunPendientes(rs),
             pending_data |-> pending_data]
  /\ log' = [NoLog EXCEPT !.mode = "retry",
                          !.fetched = UrlSeq(pendientes),
                          !.ok = ok]

RetryModeFrom(pending_data, pendientes) ==
  /\ \A i \in 1..Len(pendientes) : pendientes[i].nombre # None
  /\ \E ok \in FetchOutcomes(Urls(pendientes)), kind \in FailKinds :
       RetryModeRun(pending_data, pendientes, ok,
                    RetryClassify(pendientes, ok, kind))

\* RETRY MODE up to the first file write
MainRetryMode ==
  /\ pc = "idle"
  /\ RetryModeGuard
  /\ dataFile[fecha].exists
  /\ RetryModeFrom(pendingFile[fecha], Get(pendingFile[fecha], "pendientes", <<>>))
  /\ pc' = "retry_write_data"
  /\ before' = Snapshot
  /\ prev' = LastOutcome
  /\ UNCHANGED <<world, dataFile, pendingFile, html, crashes>>

\* json.dump(existing_data) to data_file, line 270
RetryWriteData ==
  /\ pc = "retry_write_data"
  /\ dataFile' = [dataFile EXCEPT ![mem.fecha] = mem.data]
  /\ pc' = "retry_write_pending"
  /\ UNCHANGED <<world, pendingFile, html, mem, log, before, prev, crashes>>

\* the retry run that leaves the pending file as it found it
RetryKeepPending ==
  /\ pc = "retry_write_pending"
  /\ pc' = "regen"
  /\ UNCHANGED <<world, dataFile, pendingFile, html, mem, log, before, prev, crashes>>

\* the retry run that rewrites the pending file also when nothing is left
RetryWritePendingAlways ==
  /\ pc = "retry_write_pending"
  /\ pendingFile' = [pendingFile EXCEPT ![mem.fecha] =
                       [mem.pending_data EXCEPT !.pendientes = mem.pend]]
  /\ pc' = "regen"
  /\ UNCHANGED <<world, dataFile, html, mem, log, before, prev, crashes>>

\* lines 273-278: rewrite the pending file, or remove it when nothing is left
RetryWritePending ==
  /\ pc = "retry_write_pending"
  /\ pendingFile' = [pendingFile EXCEPT ![mem.fecha] =
                       IF mem.pend # <<>>
                       THEN [mem.pending_data EXCEPT !.pendientes = mem.pend]
                       ELSE NoFile]
  /\ pc' = "regen"
  /\ UNCHANGED <<world, dataFile, html, mem, log, before, prev, crashes>>

\* the else branch, line 397: the date has a dataset and no pending file
MainAlreadyDone ==
  /\ pc = "idle"
  /\ AlreadyDoneGuard
  /\ mem' = [NoMem EXCEPT !.fecha = fecha]
  /\ log' = [NoLog EXCEPT !.mode = "done"]
  /\ pc' = "regen"
  /\ before' = Snapshot
  /\ prev' = LastOutcome
  /\ UNCHANGED <<world, dataFile, pendingFile, html, crashes>>

\* regenerate_html, line 400: reads every dataset, writes index.html
RegenerateHtml ==
  /\ pc = "regen"
  /\ LET dates == {d \in Dates : dataFile[d].exists}
     IN  html' = [dates |-> dates,
                  organismos |-> UNION {{clean_organismo(org) :
                                           org \in Get(dataFile[d], "organismos", {})} :
                                        d \in dates}]
  /\ pc' = "idle"
  /\ mem' = NoMem
  /\ UNCHANGED <<world, dataFile, pendingFile, log, before, prev, crashes>>

\* the process is killed between two steps of main()
Crash ==
  /\ pc # "idle"
  /\ crashes < MaxCrashes
  /\ crashes' = crashes + 1
  /\ pc' = "idle"
  /\ mem' = NoMem
  /\ log' = [log EXCEPT !.mode = "crashed"]
  /\ UNCHANGED <<world, dataFile, pendingFile, html, before, prev>>

Next ==
  \/ MainIndexFails
  \/ MainNormalMode
  \/ MainNormalModeRaises
  \/ FirstWriteData
  \/ FirstWritePending
  \/ MainRetryMode
  \/ RetryWriteData
  \/ RetryWritePending
  \/ MainAlreadyDone
  \/ RegenerateHtml

Spec == Init /\ [][Next]_vars

NextCrash == Next \/ Crash

SpecCrash == Init /\ [][NextCrash]_vars

SmallWorlds == {w \in Worlds : Len(w) <= 1}

\* a started run of main() goes on to its end: the statements after the loop
\* follow one another in one thread
Fairness ==
  /\ WF_vars(FirstWriteData)
  /\ WF_vars(FirstWritePending)
  /\ WF_vars(RetryWriteData)
  /\ WF_vars(RetryWritePending)
  /\ WF_vars(RegenerateHtml)

\* a bulletin of two norms, one with an amount and one without
LiveWorld ==
  << [org |-> <<"a">>, text |-> TextBig, nombre |-> "n", nanexos |-> 0],
     [org |-> <<"a">>, text |-> TextNone, nombre |-> "n", nanexos |-> 0] >>

InitLive == InitFrom({LiveWorld} \cup SmallWorlds)

SpecLive == InitLive /\ [][Next]_vars /\ Fairness

\* the same bulletins, a run being killed between two steps
SpecLiveCrash == InitLive /\ [][NextCrash]_vars

\* the index publishes the bulletin of the next date: fecha_publicacion of the
\* response of line 216 changes, at any moment of a run or between two runs
IndexPublishesNext ==
  /\ fecha + 1 \in Dates
  /\ fecha' = fecha + 1
  /\ UNCHANGED <<boletin, pdf, flaky, dataFile, pendingFile, html, pc, mem, log,
                 before, prev, crashes>>

\* a bulletin of at most one norm for every date
DateWorlds ==
  {<<>>,
   <<[org |-> <<"a">>, text |-> TextBig, nombre |-> "n", nanexos |-> 0]>>,
   <<[org |-> <<"a">>, text |-> TextNone, nombre |-> None, nanexos |-> 0]>>}

InitDates ==
  /\ \E w \in [Dates -> DateWorlds] :
       /\ boletin = [d \in Dates |->
                       [i \in 1..Len(w[d]) |-> IndexEntry(d, i, w[d][i])]]
       /\ pdf = [u \in UNION {{UrlOf(d, i) : i \in 1..Len(w[d])} : d \in Dates} |->
                   w[u[1]][u[2]].text]
       /\ flaky = UNION {{UrlOf(d, i) : i \in 1..Len(w[d])} : d \in Dates}
  /\ InitStore

NextDates == Next \/ IndexPublishesNext

SpecDates == InitDates /\ [][NextDates]_vars

\* ------------------------------------------------ bulletins of other shapes
\* a bulletin with one norm more than the stored sin_gastos list takes, no
\* document holding an amount
CapWorld ==
  [i \in 1..(SinGastosCap + 1) |->
     [org |-> <<"a">>, text |-> TextNone, nombre |-> "n", nanexos |-> 0]]

InitCap == InitFrom({CapWorld} \cup SmallWorlds)

SpecCap == InitCap /\ [][Next]_vars

\* the same bulletin with one document that can fail, the last one
InitCapLast ==
  \/ /\ boletin = [d \in Dates |->
                      IF d = 1 THEN [i \in 1..Len(CapWorld) |-> IndexEntry(d, i, CapWorld[i])]
                      ELSE <<>>]
     /\ pdf = [u \in {UrlOf(1, i) : i \in 1..Len(CapWorld)} |-> CapWorld[u[2]].text]
     /\ flaky = {UrlOf(1, Len(CapWorld))}
     /\ InitStore
  \/ InitFrom(SmallWorlds)

SpecCapLast == InitCapLast /\ [][Next]_vars

\* amount strings: "$", one to three digits, groups of "." and three digits,
\* and an optional "," with one or two digits
AmountDigits == {"0", "5"}

DigitSeqs(n) == [1..n -> AmountDigits]

\* k groups, each of one digit three times
RECURSIVE GroupSeqs(_)
GroupSeqs(k) ==
  IF k = 0 THEN {<<>>}
  ELSE {g \o <<".", d, d, d>> : g \in GroupSeqs(k - 1), d \in AmountDigits}

Without(s, c) == SelectSeq(s, LAMBDA x : x # c)

RECURSIVE DigitsValue(_)
DigitsValue(d) ==
  IF d = <<>> THEN 0
  ELSE DigitsValue(SubSeq(d, 1, Len(d) - 1)) * 10 + DigitVal(d[Len(d)])

\* amounts are kept in integer cents: the largest the integers here hold
MaxCents == 2 ^ 30

IntParts ==
  {i \in {h \o g : h \in DigitSeqs(1) \cup DigitSeqs(2) \cup DigitSeqs(3),
                    g \in UNION {GroupSeqs(k) : k \in 0..MaxGroups}} :
     DigitsValue(Without(i, ".")) < MaxCents \div 100}

FracParts == {<<>>} \cup {<<",">> \o t : t \in DigitSeqs(1) \cup DigitSeqs(2)}

SpecExample == <<"$", "1", ".", "2", "3", "4", ",", "5", "6">>

AmountStrings ==
  {<<"$">> \o i \o f : i \in IntParts, f \in FracParts} \cup {SpecExample}

\* a document longer than the snippet: "$5" first, "$7" after the snippet
LongText ==
  [i \in 1..(SnippetLen + 2) |->
     IF i = 1 \/ i = SnippetLen + 1 THEN "$"
     ELSE IF i = 2 THEN "5"
     ELSE IF i = SnippetLen + 2 THEN "7"
     ELSE "x"]

TextWorlds ==
  {<<[org |-> <<"a">>, text |-> t, nombre |-> "n", nanexos |-> 0]>> :
     t \in AmountStrings \cup {LongText}}

InitTexts == InitFrom(TextWorlds \cup SmallWorlds)

SpecTexts == InitTexts /\ [][Next]_vars

\* ------------------------------------------------------- vocabulary of claims
Norms(f) == IF f.exists THEN f.gastos \o f.sin_gastos ELSE <<>>

NoDuplicates(s) == \A i, j \in 1..Len(s) : i # j => s[i] # s[j]

RECURSIVE IsSubSeq(_, _)
IsSubSeq(a, b) ==
  IF a = <<>> THEN TRUE
  ELSE IF b = <<>> THEN FALSE
  ELSE IF Head(a) = Head(b) THEN IsSubSeq(Tail(a), Tail(b))
  ELSE IsSubSeq(a, Tail(b))

IsSortedDesc(gastos) ==
  \A i \in 1..(Len(gastos) - 1) : Monto(gastos[i]) >= Monto(gastos[i + 1])

Data == dataFile[fecha]
Pending == pendingFile[fecha]

\* the URLs whose fetch failed in the last invocation
LogFailed == Range(log.fetched) \ log.ok

\* the URLs of a list in the list's order, those in a set left out
UrlsWithout(norms, gone) == SelectSeq(UrlSeq(norms), LAMBDA u : u \notin gone)

\* C1: with the same fetch responses as in the invocation before, a second
\* completed invocation leaves the dataset file exactly as the first left it.
C1_Idempotent ==
  (/\ Completed
   /\ prev.ran
   /\ log.ok \cap prev.failed = {}
   /\ LogFailed \cap prev.ok = {})
    => Data = before.data

\* C2: after an interrupted run and any further completed invocations no URL
\* is twice in the dataset and no norm is both in the dataset and pending.
C2_CrashSafe ==
  Completed =>
    /\ NoDuplicates(UrlSeq(Norms(Data)))
    /\ Urls(Norms(Data)) \cap Urls(PendingList(Pending)) = {}

\* C3: a completed retry run that found K pending norms and N classified
\* norms, with s fetches succeeding, leaves exactly the K-s failed norms
\* pending, in their order, and N+s classified norms.
C3_Resumption ==
  (Completed /\ log.mode = "retry") =>
    /\ UrlSeq(PendingList(Pending))
         = UrlsWithout(PendingList(before.pending), log.ok)
    /\ Len(PendingList(Pending))
         = Len(PendingList(before.pending)) - Cardinality(log.ok)
    /\ Len(Norms(Data)) = Len(Norms(before.data)) + Cardinality(log.ok)

C3_Witness ==
  /\ Completed /\ log.mode = "retry"
  /\ Len(PendingList(before.pending)) = 2
  /\ Cardinality(log.ok) = 1
  /\ Len(PendingList(Pending)) = 1

\* C4: an invocation that follows a completed one never lengthens the pending
\* list: the norms pending after it are a sub-list of those pending before.
C4_PendingShrinks ==
  (Completed /\ log.mode \in {"retry", "done"}) =>
    /\ Len(PendingList(Pending)) <= Len(PendingList(before.pending))
    /\ IsSubSeq(UrlSeq(PendingList(Pending)), UrlSeq(PendingList(before.pending)))

C4_Witness ==
  /\ Completed /\ log.mode = "retry"
  /\ Len(PendingList(before.pending)) = 2
  /\ Len(PendingList(Pending)) = 1

AllExtracted == Urls(Flatten(boletin[fecha])) \subseteq Urls(Norms(Data))

SummaryAttempted ==
  \A n \in Range(Norms(Data)) :
    /\ "resumen_corto" \in DOMAIN n
    /\ \A a \in Range(Get(n, "anexos", <<>>)) : "resumen" \in DOMAIN a

\* C5: after a completed invocation the pending file is absent exactly when
\* every norm is extracted, the tenders are non-empty and every norm and
\* attachment of the dataset has had its summary attempted.
C5_PendingInvariant ==
  Completed =>
    (~Pending.exists <=>
       (/\ AllExtracted
        /\ Data.exists /\ Data.licitaciones # <<>>
        /\ SummaryAttempted))

\* C6: an empty tender list is never accepted: the persisted state still
\* records that tenders are needed and the next invocation scrapes again.
C6_EmptyTendersRetried ==
  Completed =>
    /\ (Data.exists /\ Data.licitaciones = <<>>)
         => (Pending.exists /\ Get(Pending, "tenders_needed", FALSE))
    /\ (before.data.exists /\ before.data.licitaciones = <<>>)
         => log.scraped > 0

\* C7: after completed invocations no URL is twice in gastos and sin_gastos,
\* and no invocation fetches a norm whose outcome the dataset already holds.
C7_NoDuplicateNorms ==
  Completed =>
    /\ NoDuplicates(UrlSeq(Norms(Data)))
    /\ Range(log.fetched) \cap Urls(Norms(before.data)) = {}

C7_Witness ==
  /\ Completed /\ log.mode = "retry"
  /\ log.ok # {}
  /\ Len(Norms(before.data)) >= 1
  /\ Len(Norms(Data)) = 2

\* C8: after every completed invocation organismos is the set of distinct
\* non-empty organismo values of the gastos list.
C8_OrganismosOfGastos ==
  (Completed /\ Data.exists) => Data.organismos = OrganismosUnicos(Data.gastos)

\* C9: the gastos list of every dataset file is non-increasing by monto.
C9_GastosSorted ==
  \A d \in Dates : dataFile[d].exists => IsSortedDesc(dataFile[d].gastos)

C9_Witness ==
  /\ Completed /\ log.mode = "retry"
  /\ Len(before.data.gastos) = 1
  /\ Len(Data.gastos) = 2
  /\ Monto(Data.gastos[1]) > Monto(Data.gastos[2])
  /\ Data.gastos[2].url = before.data.gastos[1].url

\* C10: an invocation that finds the dataset file and no pending file makes
\* no fetch, scrape or summary call, and leaves both files as they were.
C10_DoneIsNoOp ==
  (Completed /\ before.data.exists /\ ~before.pending.exists) =>
    /\ log.fetched = <<>>
    /\ log.scraped = 0
    /\ log.ai = {}
    /\ Data = before.data
    /\ ~Pending.exists

C10_Witness ==
  /\ Completed /\ log.mode = "done"
  /\ before.data.exists /\ ~before.pending.exists
  /\ Len(Norms(Data)) >= 1

\* C11: every norm whose fetch fails in a completed run is in the pending file
\* the run leaves and in neither list of the dataset, and the completed
\* invocation after it fetches it again.
C11_FailedStaysPending ==
  /\ (Completed /\ log.mode \in {"first", "retry"}) =>
       /\ LogFailed \subseteq Urls(PendingList(Pending))
       /\ LogFailed \cap Urls(Norms(Data)) = {}
  /\ (Completed /\ prev.ran) => prev.failed \subseteq Range(log.fetched)

C11_Witness ==
  /\ Completed /\ log.mode = "retry"
  /\ prev.ran /\ prev.failed # {}
  /\ LogFailed # {}
  /\ log.ok # {}

\* C12: the results of the norm-extraction stage are saved before the tender
\* stage starts: after a run that reached the tender stage has ended or has
\* been interrupted, the dataset file holds every norm the run extracted.
C12_SavedAfterEveryStage ==
  (pc = "idle" /\ log.scraped > 0) => log.ok \subseteq Urls(Norms(Data))

\* C13: in every state of the two files, a date with a dataset file and no
\* pending file has an extraction outcome in the dataset for every norm of
\* its index.
C13_SidecarSoleSignal ==
  \A d \in Dates :
    (dataFile[d].exists /\ ~pendingFile[d].exists)
      => Urls(Flatten(boletin[d])) \subseteq Urls(Norms(dataFile[d]))

\* C14: an invocation that ends at the failed download or decoding of the
\* index writes, changes and removes no dataset file and no pending file.
C14_AbortTouchesNothing ==
  [][(pc = "idle" /\ log'.mode = "abort")
       => (dataFile' = dataFile /\ pendingFile' = pendingFile)]_vars

C14_Witness ==
  /\ log.mode = "abort"
  /\ Data.exists /\ Pending.exists
  /\ Data = before.data /\ Pending = before.pending

\* the summaries block went through all its loops
BlockCompleted ==
  /\ \A i \in 1..Min(Len(Data.gastos), GastosSummaryCap) :
       {"resumen_corto", "resumen_largo"} \subseteq DOMAIN Data.gastos[i]
  /\ \A i \in 1..Min(Len(Data.sin_gastos), SinGastosSummaryCap) :
       "resumen_corto" \in DOMAIN Data.sin_gastos[i]
  /\ \A i \in 1..Min(Len(Data.licitaciones), LicSummaryCap) :
       "resumen_ia" \in DOMAIN Data.licitaciones[i]
  /\ \A a \in AnexosOf(Norms(Data)) : "resumen" \in DOMAIN a

\* C15: no failure of the document fetch, the attachment fetch, the summary
\* call or the tender scrape leaves its adapter as an exception: main() is
\* ended by an exception only at a norm without nombre, and a first run with
\* a client goes through the whole summaries block.
C15_NoCollaboratorExceptions ==
  /\ log.mode = "raised" =>
       LET all_norms == Flatten(boletin[fecha])
           at == Len(log.fetched) + 1
       IN  at <= Len(all_norms) /\ all_norms[at].nombre = None
  /\ (Completed /\ log.mode = "first" /\ log.client_ok) => BlockCompleted

C15_Witness ==
  /\ Completed /\ log.mode = "first"
  /\ LogFailed # {}
  /\ log.scrape = "error"
  /\ log.client_ok /\ log.aifail # {}

\* C16: a norm of the dataset whose short summary call returned no text has
\* its own sumario as resumen_corto, is in gastos or sin_gastos and is not
\* in the pending list.
C16_SummaryFallback ==
  (Completed /\ log.mode = "first") =>
    \A key \in log.aifail :
      key.k = "corto" =>
        /\ \E n \in Range(Norms(Data)) :
              /\ n.url = key.u
              /\ "resumen_corto" \in DOMAIN n
              /\ n.resumen_corto = n.sumario
        /\ key.u \notin Urls(PendingList(Pending))

C16_Witness ==
  /\ Completed /\ log.mode = "first"
  /\ \E key \in log.aifail : key.k = "corto"
  /\ \E n \in Range(Norms(Data)) : Get(n, "resumen_corto", "") = AIText

\* C17: a first run whose summary client cannot be created, or in which a
\* summary call fails, still writes the dataset with every norm it classified
\* and every tender it scraped, and the pending file with every failed norm.
C17_AIUnavailableRunCompletes ==
  (Completed /\ log.mode = "first" /\ (~log.client_ok \/ log.aifail # {})) =>
    /\ Data.exists
    /\ Urls(Norms(Data)) = log.ok
    /\ Len(Data.licitaciones) = log.lics
    /\ LogFailed # {} =>
         (Pending.exists /\ Urls(PendingList(Pending)) = LogFailed)

\* C18: a norm whose document was fetched is marked by the amounts of the
\* text: with amounts, tiene_gasto, monto their maximum, todos_montos their
\* number and text_snippet a prefix of the text of at most 800 characters;
\* without amounts, tiene_gasto false and no monto.
C18_Classification ==
  \A n \in Range(Norms(Data)) :
    LET text == pdf[n.url]
        amounts == extract_amounts(text)
    IN  IF amounts # <<>>
        THEN /\ n.tiene_gasto
             /\ n.monto \in Range(amounts)
             /\ \A v \in Range(amounts) : n.monto >= v
             /\ n.todos_montos = Len(amounts)
             /\ Len(n.text_snippet) <= SnippetLen
             /\ n.text_snippet = SubSeq(text, 1, Len(n.text_snippet))
        ELSE ~n.tiene_gasto /\ "monto" \notin DOMAIN n

C18_Witness ==
  /\ Completed
  /\ \E n \in Range(Data.gastos) :
       /\ pdf[n.url] = LongText
       /\ n.monto = 700 /\ n.todos_montos = 2
       /\ Len(n.text_snippet) = SnippetLen

\* an amount string read as the claim reads it, in cents: the "." removed,
\* the "," taken as the decimal point
AmountValue(s) ==
  LET t == Without(Tail(s), ".")
      commas == {i \in 1..Len(t) : t[i] = ","}
      at == IF commas = {} THEN Len(t) + 1 ELSE CHOOSE i \in commas : TRUE
      frac == SubSeq(t, at + 1, Len(t))
  IN  DigitsValue(SubSeq(t, 1, at - 1)) * 100
        + (IF Len(frac) = 1 THEN DigitsValue(frac) * 10 ELSE DigitsValue(frac))

\* C19: for a document that is one amount string, extract_amounts yields the
\* one value read with "." removed and "," as the decimal point, and no value
\* when that is zero; every value extract_amounts yields is positive, and the
\* norm is stored with that value as monto.
C19_AmountParsing ==
  /\ \A u \in DOMAIN pdf :
       /\ pdf[u] \in AmountStrings =>
            extract_amounts(pdf[u]) = IF AmountValue(pdf[u]) > 0
                                      THEN <<AmountValue(pdf[u])>> ELSE <<>>
       /\ \A v \in Range(extract_amounts(pdf[u])) : v > 0
  /\ \A n \in Range(Norms(Data)) :
       pdf[n.url] \in AmountStrings =>
         IF AmountValue(pdf[n.url]) > 0
         THEN n.tiene_gasto /\ n.monto = AmountValue(pdf[n.url])
         ELSE ~n.tiene_gasto

C19_Witness ==
  /\ Completed
  /\ \E n \in Range(Data.gastos) :
       pdf[n.url] = SpecExample /\ n.monto = 123456

\* C20: after a completed invocation every norm of the index of the date is
\* in exactly one of the gastos list, the sin_gastos list and the pending list.
C20_NormsNeverDeleted ==
  (Completed /\ Data.exists) =>
    \A u \in Urls(Flatten(boletin[fecha])) :
      Cardinality({i \in 1..Len(Data.gastos) : Data.gastos[i].url = u})
        + Cardinality({i \in 1..Len(Data.sin_gastos) : Data.sin_gastos[i].url = u})
        + Cardinality({i \in 1..Len(PendingList(Pending)) :
                         PendingList(Pending)[i].url = u})
        = 1

\* C21: a retry run removes no norm from sin_gastos and keeps their order: the
\* sin_gastos list it found is a sub-list of the one it leaves, also when the
\* list grows beyond the cap of the first run.
C21_CapNotReapplied ==
  (Completed /\ log.mode = "retry") =>
    /\ IsSubSeq(before.data.sin_gastos, Data.sin_gastos)
    /\ Len(Data.sin_gastos) >= Len(before.data.sin_gastos)

C21_Witness ==
  /\ Completed /\ log.mode = "retry"
  /\ Len(before.data.sin_gastos) = SinGastosCap
  /\ Len(Data.sin_gastos) = SinGastosCap + 1

\* C22: when main() is invoked again and again and the fetch of every pending
\* norm succeeds in some invocation, the pending file is eventually gone for
\* good, and an invocation that finds the dataset without a pending file
\* changes neither file.
AllUrls == {UrlOf(1, i) : i \in 1..MaxNorms}

IsPending(u) == u \in Urls(PendingList(Pending))

FetchedOk(u) ==
  pc = "retry_write_data" /\ u \in Range(log.fetched) /\ u \in log.ok

EveryPendingFetchSucceeds == \A u \in AllUrls : []<>(~IsPending(u) \/ FetchedOk(u))

C22_EventualCompletion ==
  /\ EveryPendingFetchSucceeds => <>[](~Pending.exists)
  /\ [][(pc = "idle" /\ Data.exists /\ ~Pending.exists)
         => (dataFile' = dataFile /\ pendingFile' = pendingFile)]_vars

C22_Witness ==
  /\ Completed /\ log.mode = "retry"
  /\ Len(PendingList(before.pending)) = MaxNorms
  /\ ~Pending.exists
  /\ prev.ran /\ prev.ok = {}

\* C23: a failure on one norm of the batch, a norm without nombre included,
\* stops neither the loop nor the run: when an invocation that entered the
\* first-run or the retry loop has ended, every norm of the index of the date
\* has a persisted result, in the dataset or in the pending list.
C23_FailureIsolation ==
  (pc = "idle" /\ log.mode \in {"first", "retry", "raised"}) =>
    Urls(Flatten(boletin[fecha])) \subseteq
      Urls(Norms(Data)) \cup Urls(PendingList(Pending))

\* C24: after every completed invocation the errores field of the dataset is
\* the number of norms in the persisted pending list, 0 without pending file.
C24_ErroresTracksPending ==
  (Completed /\ Data.exists) => Data.errores = Len(PendingList(Pending))

\* C25: a norm that is in the dataset with a resumen_corto when an invocation
\* starts is in the dataset with the same resumen_corto and resumen_largo when
\* the invocation has ended, and the invocation made no summary call for it.
Summarised(f) == {n \in Range(Norms(f)) : "resumen_corto" \in DOMAIN n}

SameSummary(n, m) ==
  /\ m.url = n.url
  /\ "resumen_corto" \in DOMAIN m /\ m.resumen_corto = n.resumen_corto
  /\ Get(m, "resumen_largo", None) = Get(n, "resumen_largo", None)

C25_SummariseOnce ==
  (pc = "idle" /\ log.mode # "none") =>
    \A n \in Summarised(before.data) :
      /\ \E m \in Range(Norms(Data)) : SameSummary(n, m)
      /\ \A key \in log.ai : key.u # n.url

C25_Witness ==
  /\ Completed /\ log.mode = "retry"
  /\ log.ok # {}
  /\ \E n \in Summarised(before.data) :
       n.resumen_corto = AIText /\ Get(n, "resumen_largo", None) = AIText

\* C26: clean_organismo is idempotent: cleaning a value that the first run
\* stored, already cleaned, in the dataset or in the pending list gives the
\* same value again.
StoredOrganismos ==
  {n.organismo : n \in Range(Norms(Data)) \cup Range(PendingList(Pending))}

C26_CleanIdempotent ==
  \A x \in StoredOrganismos : clean_organismo(x) = x

\* C27: in every state of the files, also after a run interrupted between two
\* file writes, a date with a pending file has a dataset file, so a retry run
\* finds the dataset it opens.
C27_PendingImpliesDataset ==
  \A d \in Dates : pendingFile[d].exists => dataFile[d].exists

C27_Witness ==
  /\ pc = "idle" /\ log.mode = "crashed"
  /\ ~before.data.exists
  /\ Data.exists /\ Pending.exists

\* the date key of the run that takes the step: the date the index gives when
\* main() starts, the date the run read at line 220 afterwards
RunDate == IF pc = "idle" THEN fecha ELSE mem.fecha

OtherDatesUnchanged ==
  \A d \in Dates \ {RunDate} :
    dataFile'[d] = dataFile[d] /\ pendingFile'[d] = pendingFile[d]

\* C28 as stated: a run reads, writes and removes only the files of its date;
\* the files of the other dates are unchanged, index.html is built from the
\* dataset of the date of the run alone, and a starting run fetches only norms
\* of the date the index gives.
C28_OnlyCurrentDateFiles ==
  [][/\ OtherDatesUnchanged
     /\ (pc = "idle" /\ fecha' = fecha) => \A u \in Range(log'.fetched) : u[1] = fecha
     /\ (pc = "regen" /\ pc' = "idle") => html'.dates \subseteq {mem.fecha}]_vars

\* C28 amended: a run writes and removes only the files of its date and a
\* starting run fetches only norms of the date the index gives, so a pending
\* file of an earlier date is never retried; regenerate_html reads the dataset
\* of every date and writes none of them.
C28_OnlyCurrentDateWritten ==
  [][/\ OtherDatesUnchanged
     /\ (pc = "idle" /\ fecha' = fecha) => \A u \in Range(log'.fetched) : u[1] = fecha
     /\ (pc = "regen" /\ pc' = "idle") =>
          /\ html'.dates = {d \in Dates : dataFile[d].exists}
          /\ dataFile' = dataFile /\ pendingFile' = pendingFile]_vars

C28_Witness ==
  /\ fecha = 2 /\ Completed /\ log.mode = "retry"
  /\ pendingFile[1].exists /\ Len(PendingList(pendingFile[1])) = 1
  /\ dataFile[2].exists /\ ~pendingFile[2].exists
  /\ html.dates = Dates

=============================================================================
